---- MODULE Spec2Model ----
(***************************************************************************)
(* Model of Atm_Project.py: a console ATM whose Account objects are backed *)
(* by one row each of the SQLite table `accounts`.                         *)
(*                                                                         *)
(* Text is modelled as a sequence of one-character strings so that         *)
(* str.strip() and len() are computed.  A Python float is modelled as a    *)
(* record [k, v]: k = "fin" with the integer value v, or k = "inf",        *)
(* "ninf", "nan" (v = 0); finite values of the model are small integers,   *)
(* which binary64 represents exactly.  Transaction.timestamp               *)
(* (datetime.now()) is not modelled: no operation reads it back except     *)
(* __str__.                                                                *)
(***************************************************************************)
EXTENDS Integers, Sequences, FiniteSets, TLC

VARIABLES db, accounts, current_account, pc, out

vars == <<db, accounts, current_account, pc, out>>

(* ------------------------------ bounds --------------------------------- *)

\* Largest finite balance a deposit may produce in the model.
MaxBalance == 2

\* Largest number of Transaction records held by all accounts of one process.
MaxLog == 2

(* ------------------------------- text ---------------------------------- *)

s1001 == <<"1", "0", "0", "1">>
s1002 == <<"1", "0", "0", "2">>
s1003 == <<"1", "0", "0", "3">>
s2001 == <<"2", "0", "0", "1">>

p123  == <<"1", "2", "3">>
p1234 == <<"1", "2", "3", "4">>
p5678 == <<"5", "6", "7", "8">>
p0000 == <<"0", "0", "0", "0">>
p4321 == <<"4", "3", "2", "1">>

Whitespace == {" ", "\t", "\n"}

RECURSIVE lstrip(_)
lstrip(s) ==
    IF s = <<>> THEN s
    ELSE IF Head(s) \in Whitespace THEN lstrip(Tail(s)) ELSE s

RECURSIVE rstrip(_)
rstrip(s) ==
    IF s = <<>> THEN s
    ELSE IF s[Len(s)] \in Whitespace THEN rstrip(SubSeq(s, 1, Len(s) - 1)) ELSE s

\* str.strip(), applied to every account number and PIN read from the console.
strip(s) == rstrip(lstrip(s))

\* Lines typed at the account-number prompts.
RawAccNos == { <<" ">>, s1001, <<" ">> \o s2001 }

\* Lines typed at the PIN prompts.
RawPins == { p123, p1234 \o <<" ">>, p4321 }

\* Lines typed at the amount prompts.
RawAmounts == { "abc", "-1", "0", "1", "inf", "nan" }

\* The PINs the program works with once the typed lines are stripped.
Pins == { strip(r) : r \in RawPins }

(* ------------------------------ floats --------------------------------- *)

Fin(n) == [k |-> "fin", v |-> n]
PosInf == [k |-> "inf", v |-> 0]
NegInf == [k |-> "ninf", v |-> 0]
NaN    == [k |-> "nan", v |-> 0]

IsNaN(a) == a.k = "nan"

\* a < b on floats: false as soon as one side is NaN.
FLt(a, b) ==
    /\ ~IsNaN(a) /\ ~IsNaN(b)
    /\ \/ a.k = "ninf" /\ b.k # "ninf"
       \/ a.k # "inf" /\ b.k = "inf"
       \/ a.k = "fin" /\ b.k = "fin" /\ a.v < b.v

FEq(a, b) == ~IsNaN(a) /\ ~IsNaN(b) /\ a = b
FLe(a, b) == FLt(a, b) \/ FEq(a, b)
FGt(a, b) == FLt(b, a)
FGe(a, b) == FLe(b, a)

FNeg(a) ==
    CASE a.k = "fin"  -> Fin(0 - a.v)
      [] a.k = "inf"  -> NegInf
      [] a.k = "ninf" -> PosInf
      [] a.k = "nan"  -> NaN

FAdd(a, b) ==
    IF IsNaN(a) \/ IsNaN(b) THEN NaN
    ELSE IF a.k = "fin" /\ b.k = "fin" THEN Fin(a.v + b.v)
    ELSE IF a.k = "fin" THEN b
    ELSE IF b.k = "fin" THEN a
    ELSE IF a.k = b.k THEN a
    ELSE NaN

FSub(a, b) == FAdd(a, FNeg(b))

\* float(text) of handle_choice: ok = FALSE stands for ValueError.
float(txt) ==
    CASE txt = "abc" -> [ok |-> FALSE, val |-> NaN]
      [] txt = "-1"  -> [ok |-> TRUE, val |-> Fin(0 - 1)]
      [] txt = "0"   -> [ok |-> TRUE, val |-> Fin(0)]
      [] txt = "1"   -> [ok |-> TRUE, val |-> Fin(1)]
      [] txt = "2"   -> [ok |-> TRUE, val |-> Fin(2)]
      [] txt = "inf" -> [ok |-> TRUE, val |-> PosInf]
      [] txt = "nan" -> [ok |-> TRUE, val |-> NaN]

(* --------------------------- credential hash --------------------------- *)

\* hashlib.sha256(pin.encode("utf-8")).hexdigest(), tabulated for the PINs and
\* the typed lines of the model (the values are the real digests).
hash_pin(pin) ==
    CASE pin = <<>>  -> "e3b0c44298fc1c149afbf4c8996fb92427ae41e4649b934ca495991b7852b855"
      [] pin = p123  -> "a665a45920422f9d417e4867efdc4fb8a04a1f3fff1fa07e998e86f7f7a27ae3"
      [] pin = p1234 -> "03ac674216f3e15c761ee1a5e255f067953623c8b388b4459e13f978d7c846f4"
      [] pin = p5678 -> "f8638b979b2f4f793ddb6dbd197e0ee25a7a6ea32b0ae22f5e3c5d119d839e75"
      [] pin = p0000 -> "9af15b336e6a9619928537df30b2e6a2376569fcf9d7e773eccede65606529a0"
      [] pin = p4321 -> "fe2592b42a727e977f055947385b709cc82b16b9a87f88c6abf3900d65d0cdc3"
      [] pin = p1234 \o <<" ">>
                     -> "36647b677ea2e01f5045e12d91350845a7d21ff33bd346465438361356fc694d"

(* ------------------------------ Account -------------------------------- *)

Transaction(txn_type, amount, balance_after) ==
    [txn_type |-> txn_type, amount |-> amount, balance_after |-> balance_after]

\* Account.__init__ (SavingsAccount adds nothing).
Account(account_number, pin_hash, balance) ==
    [account_number |-> account_number,
     pin_hash       |-> pin_hash,
     balance        |-> balance,
     transactions   |-> <<>>]

_check_pin(self, pin) == self.pin_hash = hash_pin(pin)

\* _persist_balance whose UPDATE has no WHERE clause.
_persist_balance_NoWhere(d, self) ==
    IF self.account_number \notin DOMAIN d
    THEN [raised |-> FALSE, db |-> d]
    ELSE IF IsNaN(self.balance)
    THEN [raised |-> TRUE, db |-> d]
    ELSE [raised |-> FALSE,
          db |-> [a \in DOMAIN d |-> [d[a] EXCEPT !.balance = self.balance]]]

\* _persist_balance that executes the UPDATE and never commits it.
_persist_balance_NoCommit(d, self) ==
    IF self.account_number \in DOMAIN d /\ IsNaN(self.balance)
    THEN [raised |-> TRUE, db |-> d]
    ELSE [raised |-> FALSE, db |-> d]

\* UPDATE accounts SET balance = ? WHERE account_number = ?; commit.
\* sqlite3 binds a NaN as NULL, which the NOT NULL constraint of the column
\* rejects with IntegrityError; a statement that matches no row changes nothing.
_persist_balance(d, self) ==
    IF self.account_number \notin DOMAIN d
    THEN [raised |-> FALSE, db |-> d]
    ELSE IF IsNaN(self.balance)
    THEN [raised |-> TRUE, db |-> d]
    ELSE [raised |-> FALSE,
          db |-> [d EXCEPT ![self.account_number].balance = self.balance]]

\* UPDATE accounts SET pin = ? WHERE account_number = ?; commit.
_persist_pin(d, self) ==
    IF self.account_number \notin DOMAIN d
    THEN d
    ELSE [d EXCEPT ![self.account_number].pin = self.pin_hash]

\* Every method returns [ret, self, db]: the value returned ("True"/"False";
\* "balance" with the number in val), or the exception that left the method
\* ("IntegrityError"), with the object and the table as the method leaves them.
\* get_balance that records nothing.
get_balance_NoRecord(d, self) ==
    [ret |-> "balance", val |-> self.balance, self |-> self, db |-> d]

get_balance(d, self) ==
    [ret  |-> "balance",
     val  |-> self.balance,
     self |-> [self EXCEPT !.transactions =
                  Append(@, Transaction("INQUIRY", Fin(0), self.balance))],
     db   |-> d]

\* deposit that appends the record before it persists the balance.
deposit_LogFirst(d, self, amount) ==
    IF FLe(amount, Fin(0))
    THEN [ret |-> "False", self |-> self, db |-> d]
    ELSE LET b  == FAdd(self.balance, amount)
             s1 == [self EXCEPT !.balance = b,
                                !.transactions =
                                    Append(@, Transaction("DEPOSIT", amount, b))]
             w  == _persist_balance(d, s1)
         IN  IF w.raised
             THEN [ret |-> "IntegrityError", self |-> s1, db |-> w.db]
             ELSE [ret |-> "True", self |-> s1, db |-> w.db]

\* deposit that replaces the balance by the amount.
deposit_Overwrite(d, self, amount) ==
    IF FLe(amount, Fin(0))
    THEN [ret |-> "False", self |-> self, db |-> d]
    ELSE LET s1 == [self EXCEPT !.balance = amount]
             w  == _persist_balance(d, s1)
         IN  IF w.raised
             THEN [ret |-> "IntegrityError", self |-> s1, db |-> w.db]
             ELSE [ret  |-> "True",
                   self |-> [s1 EXCEPT !.transactions =
                                Append(@, Transaction("DEPOSIT", amount, s1.balance))],
                   db   |-> w.db]

\* deposit that refuses amount < 0 only.
deposit_ZeroAllowed(d, self, amount) ==
    IF FLt(amount, Fin(0))
    THEN [ret |-> "False", self |-> self, db |-> d]
    ELSE LET s1 == [self EXCEPT !.balance = FAdd(self.balance, amount)]
             w  == _persist_balance(d, s1)
         IN  IF w.raised
             THEN [ret |-> "IntegrityError", self |-> s1, db |-> w.db]
             ELSE [ret  |-> "True",
                   self |-> [s1 EXCEPT !.transactions =
                                Append(@, Transaction("DEPOSIT", amount, s1.balance))],
                   db   |-> w.db]

deposit(d, self, amount) ==
    IF FLe(amount, Fin(0))
    THEN [ret |-> "False", self |-> self, db |-> d]
    ELSE LET s1 == [self EXCEPT !.balance = FAdd(self.balance, amount)]
             w  == _persist_balance(d, s1)
         IN  IF w.raised
             THEN [ret |-> "IntegrityError", self |-> s1, db |-> w.db]
             ELSE [ret  |-> "True",
                   self |-> [s1 EXCEPT !.transactions =
                                Append(@, Transaction("DEPOSIT", amount, s1.balance))],
                   db   |-> w.db]

\* withdraw without the comparison of the amount with the balance.
withdraw_NoFundsCheck(d, self, amount) ==
    IF FLe(amount, Fin(0))
    THEN [ret |-> "False", self |-> self, db |-> d]
    ELSE LET s1 == [self EXCEPT !.balance = FSub(self.balance, amount)]
             w  == _persist_balance(d, s1)
         IN  IF w.raised
             THEN [ret |-> "IntegrityError", self |-> s1, db |-> w.db]
             ELSE [ret  |-> "True",
                   self |-> [s1 EXCEPT !.transactions =
                                Append(@, Transaction("WITHDRAW", amount, s1.balance))],
                   db   |-> w.db]

\* withdraw without the comparison of the amount with 0.
withdraw_NoSignCheck(d, self, amount) ==
    IF FGt(amount, self.balance)
    THEN [ret |-> "False", self |-> self, db |-> d]
    ELSE LET s1 == [self EXCEPT !.balance = FSub(self.balance, amount)]
             w  == _persist_balance(d, s1)
         IN  IF w.raised
             THEN [ret |-> "IntegrityError", self |-> s1, db |-> w.db]
             ELSE [ret  |-> "True",
                   self |-> [s1 EXCEPT !.transactions =
                                Append(@, Transaction("WITHDRAW", amount, s1.balance))],
                   db   |-> w.db]

\* withdraw that records the balance it had before the subtraction.
withdraw_LogsBefore(d, self, amount) ==
    IF FLe(amount, Fin(0)) \/ FGt(amount, self.balance)
    THEN [ret |-> "False", self |-> self, db |-> d]
    ELSE LET s1 == [self EXCEPT !.balance = FSub(self.balance, amount)]
             w  == _persist_balance(d, s1)
         IN  IF w.raised
             THEN [ret |-> "IntegrityError", self |-> s1, db |-> w.db]
             ELSE [ret  |-> "True",
                   self |-> [s1 EXCEPT !.transactions =
                                Append(@, Transaction("WITHDRAW", amount, self.balance))],
                   db   |-> w.db]

withdraw(d, self, amount) ==
    IF FLe(amount, Fin(0)) \/ FGt(amount, self.balance)
    THEN [ret |-> "False", self |-> self, db |-> d]
    ELSE LET s1 == [self EXCEPT !.balance = FSub(self.balance, amount)]
             w  == _persist_balance(d, s1)
         IN  IF w.raised
             THEN [ret |-> "IntegrityError", self |-> s1, db |-> w.db]
             ELSE [ret  |-> "True",
                   self |-> [s1 EXCEPT !.transactions =
                                Append(@, Transaction("WITHDRAW", amount, s1.balance))],
                   db   |-> w.db]

\* change_pin without the test of the length of the new PIN.
change_pin_NoLength(d, self, old_pin, new_pin) ==
    IF ~_check_pin(self, old_pin)
    THEN [ret |-> "False", self |-> self, db |-> d]
    ELSE LET s1 == [self EXCEPT !.pin_hash = hash_pin(new_pin)]
         IN  [ret |-> "True", self |-> s1, db |-> _persist_pin(d, s1)]

\* change_pin that persists the PIN hash without having replaced it.
change_pin_KeepsHash(d, self, old_pin, new_pin) ==
    IF ~_check_pin(self, old_pin)
    THEN [ret |-> "False", self |-> self, db |-> d]
    ELSE IF Len(new_pin) < 4
    THEN [ret |-> "False", self |-> self, db |-> d]
    ELSE [ret |-> "True", self |-> self, db |-> _persist_pin(d, self)]

\* change_pin that records the change in the transactions.
change_pin_Logs(d, self, old_pin, new_pin) ==
    IF ~_check_pin(self, old_pin)
    THEN [ret |-> "False", self |-> self, db |-> d]
    ELSE IF Len(new_pin) < 4
    THEN [ret |-> "False", self |-> self, db |-> d]
    ELSE LET s1 == [self EXCEPT !.pin_hash = hash_pin(new_pin),
                                !.transactions =
                                    Append(@, Transaction("PINCHANGE", Fin(0), self.balance))]
         IN  [ret |-> "True", self |-> s1, db |-> _persist_pin(d, s1)]

change_pin(d, self, old_pin, new_pin) ==
    IF ~_check_pin(self, old_pin)
    THEN [ret |-> "False", self |-> self, db |-> d]
    ELSE IF Len(new_pin) < 4
    THEN [ret |-> "False", self |-> self, db |-> d]
    ELSE LET s1 == [self EXCEPT !.pin_hash = hash_pin(new_pin)]
         IN  [ret |-> "True", self |-> s1, db |-> _persist_pin(d, s1)]

\* Account.get_transactions: a copy of the list.
get_transactions(self) == self.transactions

(* --------------------------- database helpers -------------------------- *)

samples ==
    << <<s1001, hash_pin(p1234), Fin(0)>>,
       <<s1002, hash_pin(p5678), Fin(0)>>,
       <<s1003, hash_pin(p0000), Fin(0)>> >>

\* The accounts table is a function from the account numbers that have a row
\* to [pin, balance]; EmptyTable is the table CREATE TABLE IF NOT EXISTS
\* makes in a new database file.
EmptyTable == [a \in {} |-> [pin |-> "", balance |-> Fin(0)]]

\* INSERT OR REPLACE of one row.
InsertOrIgnore_Replace(d, row) ==
    [a \in DOMAIN d \cup {row[1]} |->
        IF a = row[1] THEN [pin |-> row[2], balance |-> row[3]] ELSE d[a]]

\* INSERT OR IGNORE of one row: the primary key keeps an existing row.
InsertOrIgnore(d, row) ==
    IF row[1] \in DOMAIN d
    THEN d
    ELSE [a \in DOMAIN d \cup {row[1]} |->
             IF a = row[1] THEN [pin |-> row[2], balance |-> row[3]] ELSE d[a]]

RECURSIVE executemany(_, _)
executemany(d, rows) ==
    IF rows = <<>> THEN d
    ELSE executemany(InsertOrIgnore(d, Head(rows)), Tail(rows))

init_db(d) == executemany(d, samples)

load_all_accounts(d) ==
    [a \in DOMAIN d |-> Account(a, d[a].pin, d[a].balance)]

\* insert_account_to_db that returns True without a row having been stored.
insert_account_to_db_NoRow(d, account_number, pin) ==
    IF account_number \in DOMAIN d
    THEN [ok |-> FALSE, db |-> d]
    ELSE [ok |-> TRUE, db |-> d]

\* INSERT INTO accounts ... VALUES (?, ?, 0): ok = FALSE is the IntegrityError
\* of the primary key, caught and turned into the return value False.
insert_account_to_db(d, account_number, pin) ==
    IF account_number \in DOMAIN d
    THEN [ok |-> FALSE, db |-> d]
    ELSE [ok |-> TRUE,
          db |-> [a \in DOMAIN d \cup {account_number} |->
                     IF a = account_number
                     THEN [pin |-> hash_pin(pin), balance |-> Fin(0)]
                     ELSE d[a]]]

(* -------------------------------- ATM ---------------------------------- *)

\* Python's None for ATM.current_account, which otherwise holds the key of the
\* Account object it refers to (the object is the one in ATM.accounts).
None == <<>>

NoAccounts == [a \in {} |-> Account(a, "", Fin(0))]

\* What the last handler printed: the message, and the balance or the
\* transactions printed with it.
Printed(msg) == [msg |-> msg, val |-> Fin(0), txns |-> <<>>]

RECURSIVE SumLen(_, _)
SumLen(accs, ids) ==
    IF ids = {} THEN 0
    ELSE LET a == CHOOSE x \in ids : TRUE
         IN  Len(accs[a].transactions) + SumLen(accs, ids \ {a})

TotalLog == SumLen(accounts, DOMAIN accounts)

\* run() and main() are left, by option 3 ("exited") or by an exception nobody
\* catches ("crashed"): the connection is closed and the process, with its
\* Account objects, is gone.
Terminated(how) ==
    /\ pc' = how
    /\ accounts' = NoAccounts
    /\ current_account' = None

\* State after main() has built the ATM on a new database file.
Init ==
    /\ db = init_db(EmptyTable)
    /\ accounts = load_all_accounts(init_db(EmptyTable))
    /\ current_account = None
    /\ pc = "main"
    /\ out = Printed("Main Menu")

\* main() run again on the database file a previous process left: ATM.__init__.
ATM_init ==
    /\ pc \in {"exited", "crashed"}
    /\ db' = init_db(db)
    /\ accounts' = load_all_accounts(init_db(db))
    /\ current_account' = None
    /\ pc' = "main"
    /\ out' = Printed("Main Menu")

\* create_account that neither looks the number up in self.accounts nor reads
\* what insert_account_to_db returns.
create_account_Unchecked(raw_acc_no, raw_pin) ==
    /\ pc = "main"
    /\ LET acc_no == strip(raw_acc_no)
           pin    == strip(raw_pin)
       IN  IF acc_no = <<>>
           THEN /\ out' = Printed("Account number required.")
                /\ UNCHANGED <<db, accounts, current_account, pc>>
           ELSE IF Len(pin) < 4
           THEN /\ out' = Printed("PIN must be at least 4 digits.")
                /\ UNCHANGED <<db, accounts, current_account, pc>>
           ELSE /\ db' = insert_account_to_db(db, acc_no, pin).db
                /\ accounts' =
                     [a \in DOMAIN accounts \cup {acc_no} |->
                         IF a = acc_no
                         THEN Account(acc_no, hash_pin(pin), Fin(0))
                         ELSE accounts[a]]
                /\ out' = Printed("Account created. Initial balance: 0.")
                /\ UNCHANGED <<current_account, pc>>

\* create_account that does not strip the PIN it reads.
create_account_RawPin(raw_acc_no, raw_pin) ==
    /\ pc = "main"
    /\ LET acc_no == strip(raw_acc_no)
           pin    == raw_pin
       IN  IF acc_no = <<>>
           THEN /\ out' = Printed("Account number required.")
                /\ UNCHANGED <<db, accounts, current_account, pc>>
           ELSE IF acc_no \in DOMAIN accounts
           THEN /\ out' = Printed("Account number exists.")
                /\ UNCHANGED <<db, accounts, current_account, pc>>
           ELSE IF Len(pin) < 4
           THEN /\ out' = Printed("PIN must be at least 4 digits.")
                /\ UNCHANGED <<db, accounts, current_account, pc>>
           ELSE LET r == insert_account_to_db(db, acc_no, pin)
                IN  IF r.ok
                    THEN /\ db' = r.db
                         /\ accounts' =
                              [a \in DOMAIN accounts \cup {acc_no} |->
                                  IF a = acc_no
                                  THEN Account(acc_no, hash_pin(pin), Fin(0))
                                  ELSE accounts[a]]
                         /\ out' = Printed("Account created. Initial balance: 0.")
                         /\ UNCHANGED <<current_account, pc>>
                    ELSE /\ out' = Printed("Failed to create account.")
                         /\ UNCHANGED <<db, accounts, current_account, pc>>

\* Main menu, option 2.
create_account(raw_acc_no, raw_pin) ==
    /\ pc = "main"
    /\ LET acc_no == strip(raw_acc_no)
           pin    == strip(raw_pin)
       IN  IF acc_no = <<>>
           THEN /\ out' = Printed("Account number required.")
                /\ UNCHANGED <<db, accounts, current_account, pc>>
           ELSE IF acc_no \in DOMAIN accounts
           THEN /\ out' = Printed("Account number exists.")
                /\ UNCHANGED <<db, accounts, current_account, pc>>
           ELSE IF Len(pin) < 4
           THEN /\ out' = Printed("PIN must be at least 4 digits.")
                /\ UNCHANGED <<db, accounts, current_account, pc>>
           ELSE LET r == insert_account_to_db(db, acc_no, pin)
                IN  IF r.ok
                    THEN /\ db' = r.db
                         /\ accounts' =
                              [a \in DOMAIN accounts \cup {acc_no} |->
                                  IF a = acc_no
                                  THEN Account(acc_no, hash_pin(pin), Fin(0))
                                  ELSE accounts[a]]
                         /\ out' = Printed("Account created. Initial balance: 0.")
                         /\ UNCHANGED <<current_account, pc>>
                    ELSE /\ out' = Printed("Failed to create account.")
                         /\ UNCHANGED <<db, accounts, current_account, pc>>

\* account = self.accounts.get(acc_no); account and account._check_pin(pin)
LoginOK(accs, acc_no, pin) ==
    /\ acc_no \in DOMAIN accs
    /\ _check_pin(accs[acc_no], pin)

\* authenticate_user that binds the session as soon as the account exists.
authenticate_user_NoPinCheck(raw_acc_no, raw_pin) ==
    /\ pc = "main"
    /\ LET acc_no == strip(raw_acc_no)
       IN  IF acc_no \in DOMAIN accounts
           THEN /\ current_account' = acc_no
                /\ pc' = "session"
                /\ out' = Printed("Login successful.")
                /\ UNCHANGED <<db, accounts>>
           ELSE /\ out' = Printed("Invalid account number or PIN.")
                /\ UNCHANGED <<db, accounts, current_account, pc>>

\* Main menu, option 1; on success run() enters the session loop.
authenticate_user(raw_acc_no, raw_pin) ==
    /\ pc = "main"
    /\ LET acc_no == strip(raw_acc_no)
           pin    == strip(raw_pin)
       IN  IF LoginOK(accounts, acc_no, pin)
           THEN /\ current_account' = acc_no
                /\ pc' = "session"
                /\ out' = Printed("Login successful.")
                /\ UNCHANGED <<db, accounts>>
           ELSE /\ out' = Printed("Invalid account number or PIN.")
                /\ UNCHANGED <<db, accounts, current_account, pc>>

\* Main menu, option 3.
Exit ==
    /\ pc = "main"
    /\ Terminated("exited")
    /\ out' = Printed("")
    /\ UNCHANGED db

\* Main menu, any other option.
InvalidOption ==
    /\ pc = "main"
    /\ out' = Printed("Invalid option.")
    /\ UNCHANGED <<db, accounts, current_account, pc>>

\* handle_choice("1")
BalanceInquiry ==
    /\ pc = "session"
    /\ TotalLog < MaxLog
    /\ LET r == get_balance(db, accounts[current_account])
       IN  /\ accounts' = [accounts EXCEPT ![current_account] = r.self]
           /\ out' = [Printed("Balance:") EXCEPT !.val = r.val]
    /\ UNCHANGED <<db, current_account, pc>>

\* handle_choice("2") and handle_choice("3") once the amount is parsed: the
\* result r of the method is printed; an exception of the method ends the
\* process.
Teller(r, yes, no) ==
    IF r.ret = "IntegrityError"
    THEN /\ Terminated("crashed")
         /\ db' = r.db
         /\ out' = Printed("Traceback: sqlite3.IntegrityError")
    ELSE /\ accounts' = [accounts EXCEPT ![current_account] = r.self]
         /\ db' = r.db
         /\ out' = Printed(IF r.ret = "True" THEN yes ELSE no)
         /\ UNCHANGED <<current_account, pc>>

\* except ValueError
InvalidAmount ==
    /\ out' = Printed("Invalid amount.")
    /\ UNCHANGED <<db, accounts, current_account, pc>>

CashWithdrawal(txt) ==
    /\ pc = "session"
    /\ TotalLog < MaxLog
    /\ IF ~float(txt).ok
       THEN InvalidAmount
       ELSE Teller(withdraw(db, accounts[current_account], float(txt).val),
                   "Withdrawal successful.",
                   "Insufficient balance or invalid amount.")

CashDeposit(txt) ==
    /\ pc = "session"
    /\ TotalLog < MaxLog
    /\ float(txt).ok =>
         LET b == deposit(db, accounts[current_account], float(txt).val).self.balance
         IN  b.k = "fin" => b.v <= MaxBalance
    /\ IF ~float(txt).ok
       THEN InvalidAmount
       ELSE Teller(deposit(db, accounts[current_account], float(txt).val),
                   "Deposit successful.",
                   "Amount must be > 0.")

\* handle_choice("4")
TransactionHistory ==
    /\ pc = "session"
    /\ LET txns == get_transactions(accounts[current_account])
       IN  out' = IF txns = <<>>
                  THEN Printed("No transactions this session.")
                  ELSE [Printed("Transactions:") EXCEPT !.txns = txns]
    /\ UNCHANGED <<db, accounts, current_account, pc>>

\* handle_choice("5")
ChangePIN(raw_old, raw_new) ==
    /\ pc = "session"
    /\ LET old_pin == strip(raw_old)
           new_pin == strip(raw_new)
           r == change_pin(db, accounts[current_account], old_pin, new_pin)
       IN  /\ accounts' = [accounts EXCEPT ![current_account] = r.self]
           /\ db' = r.db
           /\ out' = Printed(IF r.ret = "True" THEN "PIN changed successfully."
                                             ELSE "PIN change failed.")
    /\ UNCHANGED <<current_account, pc>>

\* Logout that also empties the transactions of the account it unbinds.
Logout_ForgetsRecords ==
    /\ pc = "session"
    /\ current_account' = None
    /\ pc' = "main"
    /\ out' = Printed("Main Menu")
    /\ accounts' = [accounts EXCEPT ![current_account].transactions = <<>>]
    /\ UNCHANGED db

\* handle_choice("6")
Logout ==
    /\ pc = "session"
    /\ current_account' = None
    /\ pc' = "main"
    /\ out' = Printed("Main Menu")
    /\ UNCHANGED <<db, accounts>>

\* handle_choice of anything else.
InvalidChoice ==
    /\ pc = "session"
    /\ out' = Printed("Invalid choice.")
    /\ UNCHANGED <<db, accounts, current_account, pc>>

\* What one process does between the construction of its ATM and its end.
Run ==
    \/ \E a \in RawAccNos, p \in RawPins : create_account(a, p)
    \/ \E a \in RawAccNos, p \in RawPins : authenticate_user(a, p)
    \/ Exit
    \/ InvalidOption
    \/ BalanceInquiry
    \/ \E txt \in RawAmounts : CashWithdrawal(txt)
    \/ \E txt \in RawAmounts : CashDeposit(txt)
    \/ TransactionHistory
    \/ \E o \in RawPins, n \in RawPins : ChangePIN(o, n)
    \/ Logout
    \/ InvalidChoice

\* Processes one after the other on the same database file.
Next ==
    \/ ATM_init
    \/ Run

Spec == Init /\ [][Next]_vars

\* The first process alone, from the new database file to its end.
SpecProcess == Init /\ [][Run]_vars

(* ============================== properties ============================= *)

Running == pc \in {"main", "session"}

\* The Account object the session is bound to.
Current == accounts[current_account]

(* C1: whatever operations have run, the balance of every account is >= 0,  *)
(* in ATM.accounts and in the accounts table.                               *)
C1_BalanceNonNegative ==
    /\ \A a \in DOMAIN accounts : FGe(accounts[a].balance, Fin(0))
    /\ \A a \in DOMAIN db : FGe(db[a].balance, Fin(0))

\* A withdrawal has been refused on an account whose balance is 0.
C1_Witness ==
    /\ pc = "session"
    /\ out.msg = "Insufficient balance or invalid amount."
    /\ Current.balance = Fin(0)
    /\ db[current_account].balance = Fin(0)

(* C2: between two operations, every account of ATM.accounts has a row in   *)
(* the table and its in-memory balance is the balance of that row.          *)
C2_MemoryMatchesStore ==
    \A a \in DOMAIN accounts :
        /\ a \in DOMAIN db
        /\ accounts[a].balance = db[a].balance

\* A deposit and then a withdrawal have succeeded on the bound account.
C2_Witness ==
    /\ pc = "session"
    /\ out.msg = "Withdrawal successful."
    /\ Len(Current.transactions) = 2
    /\ Current.transactions[1].txn_type = "DEPOSIT"
    /\ Current.balance = Fin(1)
    /\ db[current_account].balance = Fin(1)

\* The amount parsed from the typed text, and the balance of the bound account.
Amt(txt) == float(txt).val
Bal == Current.balance

(* C3: withdraw(a) with 0 < a <= balance returns True, the balance becomes  *)
(* balance - a in memory and in the table, and exactly one WITHDRAW record  *)
(* (a, new balance) is appended to the account's transactions.              *)
C3_WithdrawWithinBalance ==
    [][\A txt \in RawAmounts :
          ( /\ CashWithdrawal(txt)
            /\ float(txt).ok
            /\ FLt(Fin(0), Amt(txt)) /\ FLe(Amt(txt), Bal) )
          => /\ out'.msg = "Withdrawal successful."
             /\ pc' = "session"
             /\ accounts'[current_account].balance = FSub(Bal, Amt(txt))
             /\ db'[current_account].balance = FSub(Bal, Amt(txt))
             /\ accounts'[current_account].transactions =
                   Append(Current.transactions,
                          Transaction("WITHDRAW", Amt(txt), FSub(Bal, Amt(txt))))
      ]_vars

(* C4: withdraw(a) with a <= 0 or a > balance returns False and changes     *)
(* neither the balance in memory, nor the table, nor any transaction list.  *)
C4_RefusedWithdrawal ==
    [][\A txt \in RawAmounts :
          ( /\ CashWithdrawal(txt)
            /\ float(txt).ok
            /\ (FLe(Amt(txt), Fin(0)) \/ FGt(Amt(txt), Bal)) )
          => /\ out'.msg = "Insufficient balance or invalid amount."
             /\ UNCHANGED <<db, accounts, current_account, pc>>
      ]_vars

\* A withdrawal has been refused on an account that holds 1 after a deposit.
C4_Witness ==
    /\ pc = "session"
    /\ out.msg = "Insufficient balance or invalid amount."
    /\ Current.balance = Fin(1)
    /\ Len(Current.transactions) = 1
    /\ db[current_account].balance = Fin(1)

(* C5: deposit(a) with a > 0 returns True, the balance becomes balance + a, *)
(* and when the call returns the table holds that balance for the account.  *)
C5_DepositAdds ==
    [][\A txt \in RawAmounts :
          ( /\ CashDeposit(txt)
            /\ float(txt).ok
            /\ FGt(Amt(txt), Fin(0)) )
          => /\ out'.msg = "Deposit successful."
             /\ pc' = "session"
             /\ accounts'[current_account].balance = FAdd(Bal, Amt(txt))
             /\ db'[current_account].balance = FAdd(Bal, Amt(txt))
      ]_vars

\* A second deposit has succeeded: the account holds 2, and so does its row.
C5_Witness ==
    /\ pc = "session"
    /\ out.msg = "Deposit successful."
    /\ Current.balance = Fin(2)
    /\ db[current_account].balance = Fin(2)

(* C6: deposit(a) with a <= 0 returns False and changes neither the balance *)
(* in memory, nor the table, nor any transaction list.                      *)
C6_RefusedDeposit ==
    [][\A txt \in RawAmounts :
          ( /\ CashDeposit(txt)
            /\ float(txt).ok
            /\ FLe(Amt(txt), Fin(0)) )
          => /\ out'.msg = "Amount must be > 0."
             /\ UNCHANGED <<db, accounts, current_account, pc>>
      ]_vars

\* A deposit has been refused.
C6_Witness ==
    /\ pc = "session"
    /\ out.msg = "Amount must be > 0."
    /\ Current.balance = db[current_account].balance

\* PINs an authentication is tried with.
AllPins == Pins \cup {<<>>, p5678, p0000}

\* A step of ChangePIN in which change_pin returned True.
PinChanged(o, n) == ChangePIN(o, n) /\ out'.msg = "PIN changed successfully."

(* C7 as stated: whenever change_pin(old, new) returns True, authentication *)
(* of the account with old fails afterwards and with new succeeds.          *)
C7_Rotation_AsStated ==
    [][\A o \in RawPins, n \in RawPins :
          PinChanged(o, n)
          => /\ LoginOK(accounts', current_account, strip(n))
             /\ ~LoginOK(accounts', current_account, strip(o))
      ]_vars

(* C7 amended: whenever change_pin(old, new) returns True, authentication   *)
(* with new succeeds afterwards, and authentication with old fails provided *)
(* new differs from old (change_pin accepts new = old, and then old still   *)
(* authenticates).                                                          *)
C7_Rotation ==
    [][\A o \in RawPins, n \in RawPins :
          PinChanged(o, n)
          => /\ LoginOK(accounts', current_account, strip(n))
             /\ strip(o) # strip(n) => ~LoginOK(accounts', current_account, strip(o))
             /\ \A p \in AllPins \ {strip(n)} : ~LoginOK(accounts', current_account, p)
      ]_vars

\* The PIN of account 1001 has been changed from 1234 to 4321.
C7_Witness ==
    /\ pc = "session"
    /\ current_account = s1001
    /\ out.msg = "PIN changed successfully."
    /\ Current.pin_hash = hash_pin(p4321)
    /\ ~LoginOK(accounts, s1001, p1234)

\* Steps that Account.get_transactions' list grows by.
Inquired == BalanceInquiry
Deposited(txt) == CashDeposit(txt) /\ out'.msg = "Deposit successful."
Withdrew(txt) == CashWithdrawal(txt) /\ out'.msg = "Withdrawal successful."

(* C8 as stated: every operation performed on the bound account (inquiry,   *)
(* deposit, withdrawal, PIN change) adds exactly one record to the list     *)
(* history() returns.                                                       *)
C8_History_AsStated ==
    [][( \/ Inquired
         \/ \E txt \in RawAmounts : Deposited(txt) \/ Withdrew(txt)
         \/ \E o \in RawPins, n \in RawPins : PinChanged(o, n) )
       => Len(accounts'[current_account].transactions) =
             Len(Current.transactions) + 1
      ]_vars

(* C8 amended: within one process, the list history() returns for an        *)
(* account has exactly one record per inquiry and per successful deposit or *)
(* withdrawal on it, in the order performed, each with the kind, the amount *)
(* and the balance the operation left; a refused deposit or withdrawal, a   *)
(* PIN change and history() itself add no record.                           *)
C8_History ==
    [][/\ Inquired =>
            accounts'[current_account].transactions =
               Append(Current.transactions, Transaction("INQUIRY", Fin(0), Bal))
       /\ \A txt \in RawAmounts :
            /\ Deposited(txt) =>
                 /\ accounts'[current_account].transactions =
                       Append(Current.transactions,
                              Transaction("DEPOSIT", Amt(txt), FAdd(Bal, Amt(txt))))
                 /\ accounts'[current_account].balance = FAdd(Bal, Amt(txt))
            /\ Withdrew(txt) =>
                 /\ accounts'[current_account].transactions =
                       Append(Current.transactions,
                              Transaction("WITHDRAW", Amt(txt), FSub(Bal, Amt(txt))))
                 /\ accounts'[current_account].balance = FSub(Bal, Amt(txt))
       /\ TransactionHistory => out'.txns = Current.transactions
       /\ ( /\ Running /\ pc' \in {"main", "session"}
            /\ ~Inquired
            /\ \A txt \in RawAmounts : ~Deposited(txt) /\ ~Withdrew(txt) )
          => \A a \in DOMAIN accounts :
                /\ a \in DOMAIN accounts'
                /\ accounts'[a].transactions = accounts[a].transactions
      ]_vars

\* history() has shown a deposit of 1 followed by a withdrawal of 1.
C8_Witness ==
    /\ pc = "session"
    /\ out.msg = "Transactions:"
    /\ out.txns = << Transaction("DEPOSIT", Fin(1), Fin(1)),
                     Transaction("WITHDRAW", Fin(1), Fin(0)) >>

\* A step of create_account that added an account.
Created(ra, rp) ==
    create_account(ra, rp) /\ out'.msg = "Account created. Initial balance: 0."

(* C9: create_account(id, P) with id non-empty and not present and P of at  *)
(* least 4 characters succeeds; then authentication of id succeeds with P   *)
(* and fails with every other PIN; and the PIN hash of an account, in       *)
(* memory and in its row, changes only when change_pin returns True on it.  *)
C9_RoundTrip ==
    [][/\ \A ra \in RawAccNos, rp \in RawPins :
            /\ ( /\ create_account(ra, rp)
                 /\ strip(ra) # <<>>
                 /\ strip(ra) \notin DOMAIN accounts
                 /\ Len(strip(rp)) >= 4 )
               => Created(ra, rp)
            /\ Created(ra, rp) =>
                 /\ \A p \in AllPins :
                       LoginOK(accounts', strip(ra), p) <=> p = strip(rp)
                 /\ db'[strip(ra)].pin = hash_pin(strip(rp))
       /\ \A a \in DOMAIN accounts \cap DOMAIN accounts' :
            accounts'[a].pin_hash # accounts[a].pin_hash
            => /\ a = current_account
               /\ \E o \in RawPins, n \in RawPins : PinChanged(o, n)
       /\ \A a \in DOMAIN db :
            /\ a \in DOMAIN db'
            /\ db'[a].pin # db[a].pin
               => /\ a = current_account
                  /\ \E o \in RawPins, n \in RawPins : PinChanged(o, n)
       /\ \A ra \in RawAccNos, rp \in RawPins :
            authenticate_user(ra, rp) =>
               ( pc' = "session" <=>
                    /\ strip(ra) \in DOMAIN accounts
                    /\ accounts[strip(ra)].pin_hash = hash_pin(strip(rp)) )
      ]_vars

\* Account 2001 has just been created with PIN 1234.
C9_Witness ==
    /\ pc = "main"
    /\ out.msg = "Account created. Initial balance: 0."
    /\ s2001 \in DOMAIN accounts
    /\ LoginOK(accounts, s2001, p1234)
    /\ ~LoginOK(accounts, s2001, p4321)

(* C10: create_account with a number that is already present reports the    *)
(* failure and changes nothing: no account is added to ATM.accounts or to   *)
(* the table, and the balance and PIN hash of the existing account stay as  *)
(* they are in both.                                                        *)
C10_DuplicateRefused ==
    [][\A ra \in RawAccNos, rp \in RawPins :
          ( /\ create_account(ra, rp)
            /\ (strip(ra) \in DOMAIN accounts \/ strip(ra) \in DOMAIN db) )
          => /\ out'.msg = "Account number exists."
             /\ UNCHANGED <<db, accounts, current_account, pc>>
      ]_vars

\* Creation has been refused for account 1001, which by then held 1 and had
\* had its PIN changed.
C10_Witness ==
    /\ pc = "main"
    /\ out.msg = "Account number exists."
    /\ accounts[s1001].balance = Fin(1)
    /\ db[s1001].balance = Fin(1)
    /\ db[s1001].pin = hash_pin(p4321)

\* The handlers of the session menu that call a method of the bound account.
LedgerStep ==
    \/ BalanceInquiry
    \/ \E txt \in RawAmounts : CashWithdrawal(txt) \/ CashDeposit(txt)
    \/ TransactionHistory
    \/ \E o \in RawPins, n \in RawPins : ChangePIN(o, n)

\* The account number and PIN typed are those of an account of ATM.accounts.
Matches(ra, rp) ==
    /\ strip(ra) \in DOMAIN accounts
    /\ accounts[strip(ra)].pin_hash = hash_pin(strip(rp))

(* C11: the session is bound to no account (main menu) or to one account of *)
(* ATM.accounts (session menu); it becomes bound to X only by an            *)
(* authenticate_user that was given X and a PIN whose hash is X's; a failed *)
(* authenticate_user and create_account leave it unbound; logout unbinds    *)
(* it; the ledger operations leave it as it is for as long as the process   *)
(* lives.                                                                   *)
C11_SessionBinding ==
    /\ [](/\ pc = "session" => current_account \in DOMAIN accounts
          /\ pc # "session" => current_account = None)
    /\ [][/\ (current_account = None /\ current_account' # None)
             => \E ra \in RawAccNos, rp \in RawPins :
                   /\ authenticate_user(ra, rp)
                   /\ Matches(ra, rp)
                   /\ current_account' = strip(ra)
          /\ (current_account # None /\ current_account' # current_account)
             => /\ current_account' = None
                /\ Logout \/ pc' = "crashed"
          /\ \A ra \in RawAccNos, rp \in RawPins :
                /\ (authenticate_user(ra, rp) /\ ~Matches(ra, rp))
                   => (current_account' = None /\ pc' = "main")
                /\ (authenticate_user(ra, rp) /\ Matches(ra, rp))
                   => (current_account' = strip(ra) /\ pc' = "session")
                /\ create_account(ra, rp)
                   => (current_account' = None /\ pc' = "main")
          /\ Logout => (current_account' = None /\ pc' = "main")
          /\ LedgerStep
             => \/ current_account' = current_account /\ pc' = "session"
                \/ pc' = "crashed"
         ]_vars

\* Back at the main menu, unbound, after a session that left a record on 1001.
C11_Witness ==
    /\ pc = "main"
    /\ current_account = None
    /\ out.msg = "Main Menu"
    /\ accounts[s1001].transactions # <<>>

(* C12: change_pin(old, new) returns False when the hash of old is not the  *)
(* stored hash or new has fewer than 4 characters, and then the PIN hash is *)
(* unchanged in memory and in the table; otherwise it returns True and the  *)
(* PIN hash in memory and in the table is the hash of new.                  *)
C12_ChangePin ==
    [][\A o \in RawPins, n \in RawPins :
          ChangePIN(o, n) =>
             IF Current.pin_hash # hash_pin(strip(o)) \/ Len(strip(n)) < 4
             THEN /\ out'.msg = "PIN change failed."
                  /\ accounts'[current_account].pin_hash = Current.pin_hash
                  /\ db'[current_account].pin = db[current_account].pin
             ELSE /\ out'.msg = "PIN changed successfully."
                  /\ accounts'[current_account].pin_hash = hash_pin(strip(n))
                  /\ db'[current_account].pin = hash_pin(strip(n))
      ]_vars

\* A PIN change has been refused on account 1001, whose PIN is still 1234.
C12_Witness ==
    /\ pc = "session"
    /\ current_account = s1001
    /\ out.msg = "PIN change failed."
    /\ Current.pin_hash = hash_pin(p1234)
    /\ db[s1001].pin = hash_pin(p1234)

(* C13: every failure is reported and the menu comes back; the process      *)
(* ends only by option 3 (Exit) of the main menu.                           *)
C13_EndsOnlyByExit ==
    [][(Running /\ pc' \notin {"main", "session"})
       => (pc = "main" /\ Exit /\ pc' = "exited")
      ]_vars

\* The last record of a list of transactions.
LastTxn(t) == t[Len(t)]

(* C14: deposit and withdraw write the new balance to the table before they *)
(* append the record: a DEPOSIT or WITHDRAW record is appended only with    *)
(* its resulting balance in the row of the account, and a call whose UPDATE *)
(* raises leaves the list of transactions and the table as they were.       *)
C14_WriteBeforeRecord ==
    /\ [](pc = "session" =>
            \A txt \in RawAmounts :
               float(txt).ok =>
                  LET d == deposit(db, Current, Amt(txt))
                      w == withdraw(db, Current, Amt(txt))
                  IN  /\ d.ret = "IntegrityError" =>
                            /\ d.self.transactions = Current.transactions
                            /\ d.db = db
                      /\ w.ret = "IntegrityError" =>
                            /\ w.self.transactions = Current.transactions
                            /\ w.db = db
                      /\ d.ret = "True" =>
                            LastTxn(d.self.transactions).balance_after =
                               d.db[current_account].balance
                      /\ w.ret = "True" =>
                            LastTxn(w.self.transactions).balance_after =
                               w.db[current_account].balance)
    /\ [][/\ \A txt \in RawAmounts :
                (Deposited(txt) \/ Withdrew(txt)) =>
                   /\ Len(accounts'[current_account].transactions) =
                         Len(Current.transactions) + 1
                   /\ LastTxn(accounts'[current_account].transactions).balance_after =
                         db'[current_account].balance
          /\ (Running /\ pc' = "crashed") => db' = db
         ]_vars

\* The UPDATE of a deposit has raised on account 1001, whose row holds the 1
\* of the deposit before.
C14_Witness ==
    /\ pc = "crashed"
    /\ out.msg = "Traceback: sqlite3.IntegrityError"
    /\ db[s1001].balance = Fin(1)

(* C15: an account number enters ATM.accounts only once its row has been    *)
(* inserted: every account of ATM.accounts has a row in the table, an       *)
(* insert that fails leaves the table as it was, and a create_account that  *)
(* does not report the creation changes neither ATM.accounts nor the table. *)
C15_NoPartialCreation ==
    /\ [](/\ \A a \in DOMAIN accounts : a \in DOMAIN db
          /\ \A ra \in RawAccNos, rp \in RawPins :
                LET r == insert_account_to_db(db, strip(ra), strip(rp))
                IN  /\ r.ok <=> strip(ra) \notin DOMAIN db
                    /\ ~r.ok => r.db = db
                    /\ r.ok => /\ DOMAIN r.db = DOMAIN db \cup {strip(ra)}
                               /\ \A a \in DOMAIN db : r.db[a] = db[a])
    /\ [][\A ra \in RawAccNos, rp \in RawPins :
             create_account(ra, rp) =>
                LET r == insert_account_to_db(db, strip(ra), strip(rp))
                IN  /\ accounts' # accounts =>
                          /\ r.ok
                          /\ db' = r.db
                          /\ DOMAIN accounts' = DOMAIN accounts \cup {strip(ra)}
                          /\ strip(ra) \in DOMAIN db'
                    /\ ~Created(ra, rp) => (accounts' = accounts /\ db' = db)
         ]_vars

\* Account 2001 has just been created with PIN 4321: it has its row, with
\* balance 0, and its Account object.
C15_Witness ==
    /\ pc = "main"
    /\ out.msg = "Account created. Initial balance: 0."
    /\ s2001 \in DOMAIN accounts
    /\ s2001 \in DOMAIN db
    /\ db[s2001] = [pin |-> hash_pin(p4321), balance |-> Fin(0)]

\* The account numbers init_db seeds, and a table cut down to some numbers.
Seeds == { samples[i][1] : i \in DOMAIN samples }
Restrict(d, S) == [a \in S |-> d[a]]

\* The row init_db inserts for the seeded account number a.
SeedRow(a) ==
    LET i == CHOOSE j \in DOMAIN samples : samples[j][1] = a
    IN  [pin |-> samples[i][2], balance |-> samples[i][3]]

\* The sets of seeded rows taken out of the table before init_db runs: none
\* (a restart), the row of 1001 (the account the processes have changed), all
\* (from the first table, that is the empty table of a new file).
Missing == { {}, {s1001}, Seeds }

(* C16: init_db is idempotent: on the table as any process left it (after   *)
(* deposits, PIN changes and account creations), and on that table with     *)
(* seeded rows missing, running it again gives what running it once gives;  *)
(* it adds exactly the seeded rows that are missing and leaves every row    *)
(* that exists as it is, so that a restart changes nothing in the table.    *)
C16_InitDbIdempotent ==
    \A T \in Missing :
        LET d    == Restrict(db, DOMAIN db \ T)
            once == init_db(d)
        IN  /\ init_db(once) = once
            /\ once = [a \in DOMAIN d \cup Seeds |->
                          IF a \in DOMAIN d THEN d[a] ELSE SeedRow(a)]

\* A second process has started on a table in which 1001 holds 1 under a
\* changed PIN and 2001 has been created.
C16_Witness ==
    /\ pc = "main"
    /\ out.msg = "Main Menu"
    /\ accounts[s1001].transactions = <<>>
    /\ accounts[s1001].balance = Fin(1)
    /\ db[s1001] = [pin |-> hash_pin(p4321), balance |-> Fin(1)]
    /\ s2001 \in DOMAIN db

(* C17: a handler of the session menu changes the balance, PIN hash and     *)
(* transactions of the bound account only: every other account is as it     *)
(* was, in ATM.accounts and in the table; and at the main menu no handler   *)
(* changes the balance, PIN hash or transactions of any account.            *)
C17_Frame ==
    [][/\ pc = "session" =>
            /\ DOMAIN db' = DOMAIN db
            /\ \A a \in DOMAIN db \ {current_account} : db'[a] = db[a]
            /\ pc' \in {"main", "session"} =>
                  /\ DOMAIN accounts' = DOMAIN accounts
                  /\ \A a \in DOMAIN accounts \ {current_account} :
                        accounts'[a] = accounts[a]
       /\ pc = "main" =>
            /\ \A a \in DOMAIN db : a \in DOMAIN db' /\ db'[a] = db[a]
            /\ pc' \in {"main", "session"} =>
                  \A a \in DOMAIN accounts :
                     a \in DOMAIN accounts' /\ accounts'[a] = accounts[a]
      ]_vars

\* Accounts 1001 and 2001 both have transactions of this process, and the
\* session is bound to 2001.
C17_Witness ==
    /\ pc = "session"
    /\ current_account = s2001
    /\ accounts[s1001].transactions # <<>>
    /\ accounts[s2001].transactions # <<>>
    /\ db[s1001].balance # db[s2001].balance

\* s is the beginning of t.
IsPrefix(s, t) == Len(s) <= Len(t) /\ SubSeq(t, 1, Len(s)) = s

(* C18: logout clears the binding and nothing else: the Account stays in    *)
(* ATM.accounts with its balance, PIN hash and transactions; a login does   *)
(* not change them either; so while the process lives the transactions of   *)
(* an account only grow at their end, and after a logout and a new login    *)
(* history() shows the records of before the logout followed by the later   *)
(* ones.                                                                    *)
C18_LogoutKeepsLedger ==
    [][/\ Logout =>
            /\ current_account' = None
            /\ pc' = "main"
            /\ accounts' = accounts
            /\ db' = db
       /\ \A ra \in RawAccNos, rp \in RawPins :
            authenticate_user(ra, rp) => (accounts' = accounts /\ db' = db)
       /\ TransactionHistory => out'.txns = Current.transactions
       /\ (Running /\ pc' \in {"main", "session"}) =>
             \A a \in DOMAIN accounts :
                /\ a \in DOMAIN accounts'
                /\ IsPrefix(accounts[a].transactions, accounts'[a].transactions)
      ]_vars

\* Account 1001 has been logged in again, with a record of its session before.
C18_Witness ==
    /\ pc = "session"
    /\ current_account = s1001
    /\ out.msg = "Login successful."
    /\ Current.transactions # <<>>

(* C19: change_pin, whether it returns True or False, appends nothing to    *)
(* the transactions of any account and changes no balance, neither of an    *)
(* Account object nor of a row; _check_pin, as authenticate_user calls it,  *)
(* changes neither the Account objects nor the table.                       *)
C19_PinStepsLeaveLedger ==
    [][/\ \A o \in RawPins, n \in RawPins :
            ChangePIN(o, n) =>
                /\ DOMAIN accounts' = DOMAIN accounts
                /\ DOMAIN db' = DOMAIN db
                /\ \A a \in DOMAIN accounts :
                      /\ accounts'[a].transactions = accounts[a].transactions
                      /\ accounts'[a].balance = accounts[a].balance
                /\ \A a \in DOMAIN db : db'[a].balance = db[a].balance
                /\ out'.msg = "PIN change failed." =>
                      (accounts' = accounts /\ db' = db)
       /\ \A ra \in RawAccNos, rp \in RawPins :
            authenticate_user(ra, rp) =>
                /\ accounts' = accounts
                /\ db' = db
                /\ out'.msg = "Invalid account number or PIN." =>
                      current_account' = current_account
      ]_vars

\* A PIN has just been changed on an account holding 1 with one record.
C19_Witness ==
    /\ pc = "session"
    /\ out.msg = "PIN changed successfully."
    /\ Len(Current.transactions) = 1
    /\ Current.balance = Fin(1)
    /\ db[current_account].balance = Fin(1)

\* The balance a record of type ty and amount amt leaves, after balance prev.
After(ty, amt, prev) ==
    CASE ty = "DEPOSIT"  -> FAdd(prev, amt)
      [] ty = "WITHDRAW" -> FSub(prev, amt)
      [] OTHER           -> prev

(* C20: in every state, for every account with transactions, balance_after  *)
(* of the last record is the balance of the account, and balance_after of   *)
(* each record after the first is balance_after of the record before it     *)
(* plus the amount (DEPOSIT), minus the amount (WITHDRAW) or the same       *)
(* (INQUIRY); the only types recorded are these three.                      *)
C20_LogMatchesBalance ==
    \A a \in DOMAIN accounts :
        LET t == accounts[a].transactions
        IN  t # <<>> =>
              /\ LastTxn(t).balance_after = accounts[a].balance
              /\ \A i \in 1..Len(t) :
                    t[i].txn_type \in {"INQUIRY", "DEPOSIT", "WITHDRAW"}
              /\ \A i \in 2..Len(t) :
                    t[i].balance_after =
                        After(t[i].txn_type, t[i].amount, t[i-1].balance_after)

\* An account whose log is a deposit of 1 followed by a withdrawal of 1, and
\* whose balance is 0 again.
C20_Witness ==
    \E a \in DOMAIN accounts :
        /\ accounts[a].transactions =
              << Transaction("DEPOSIT", Fin(1), Fin(1)),
                 Transaction("WITHDRAW", Fin(1), Fin(0)) >>
        /\ accounts[a].balance = Fin(0)

====
